---------------------------- MODULE Spec2Model ----------------------------
(***************************************************************************)
(* Model of the LCG demonstrator (src/script.js, the variant that derives  *)
(* the modulus from the count, and src/unnamed/part_000, the variant that  *)
(* reads the modulus from the form).                                       *)
(*                                                                         *)
(* JavaScript numbers are IEEE-754 binary64 values.  An integer-valued     *)
(* number is kept as its exact magnitude, a natural number written in      *)
(* limbs of 15 bits (least significant first, no leading zero limb), and   *)
(* every arithmetic result is rounded to 53 significant bits, ties to      *)
(* even, and overflows to Infinity at 2^1024, as the hardware does.        *)
(* Text (the value of a form field) is a sequence of one-character         *)
(* strings.                                                                *)
(***************************************************************************)
EXTENDS Integers, Sequences, FiniteSets, TLC

(***************************************************************************)
(* Natural numbers of any size.  The operators work on whole limb          *)
(* sequences at once and settle the carries in passes, which keeps the     *)
(* evaluation shallow.                                                     *)
(***************************************************************************)
Base == 2 ^ 15

RECURSIVE BitLenSmall(_)
BitLenSmall(n) == IF n = 0 THEN 0 ELSE 1 + BitLenSmall(n \div 2)

LimbBits == BitLenSmall(Base) - 1

Limb(a, i) == IF i <= Len(a) THEN a[i] ELSE 0

MaxOf(S) == CHOOSE x \in S : \A y \in S : y <= x

\* a without its leading zero limbs.
RECURSIVE BNorm(_)
BNorm(a) ==
  IF a = <<>> \/ a[Len(a)] # 0 THEN a ELSE BNorm(SubSeq(a, 1, Len(a) - 1))

\* The limbs of l (each a natural number below 2^31) with the carries settled.
RECURSIVE BCarry(_)
BCarry(l) ==
  IF \A i \in 1..Len(l) : l[i] < Base THEN BNorm(l)
  ELSE BCarry([i \in 1..(Len(l) + 1) |->
                 (IF i <= Len(l) THEN l[i] % Base ELSE 0)
                 + (IF i > 1 THEN l[i - 1] \div Base ELSE 0)])

BFromInt(n) == BCarry(<<n>>)

\* The value of a number of at most two limbs (below 2^30).
BToInt(a) == Limb(a, 1) + Base * Limb(a, 2)

BIsSmall(a) == Len(a) <= 2

BAdd(a, b) ==
  LET n == IF Len(a) < Len(b) THEN Len(b) ELSE Len(a)
  IN  BCarry([i \in 1..n |-> Limb(a, i) + Limb(b, i)])

\* a - b, for a >= b: limb by limb from the lowest, with the borrow.
RECURSIVE BSubFrom(_, _, _, _, _)
BSubFrom(a, b, i, borrow, acc) ==
  IF i > Len(a) \/ Len(acc) < 0 THEN BNorm(acc)
  ELSE IF a[i] - Limb(b, i) - borrow < 0
    THEN BSubFrom(a, b, i + 1, 1, Append(acc, a[i] - Limb(b, i) - borrow + Base))
  ELSE BSubFrom(a, b, i + 1, 0, Append(acc, a[i] - Limb(b, i) - borrow))

BSub(a, b) == BSubFrom(a, b, 1, 0, <<>>)

\* -1, 0 or 1 as a < b, a = b or a > b.
RECURSIVE BCmpFrom(_, _, _)
BCmpFrom(a, b, i) ==
  IF i = 0 THEN 0
  ELSE IF a[i] < b[i] THEN -1
  ELSE IF a[i] > b[i] THEN 1
  ELSE BCmpFrom(a, b, i - 1)

BCmp(a, b) ==
  IF Len(a) < Len(b) THEN -1
  ELSE IF Len(a) > Len(b) THEN 1
  ELSE BCmpFrom(a, b, Len(a))

BLt(a, b) == BCmp(a, b) < 0
BLeq(a, b) == BCmp(a, b) <= 0

\* a * s, for 0 <= s < Base.
BMulSmall(a, s) == BCarry([i \in 1..Len(a) |-> a[i] * s])

BShiftLimbs(a, n) == IF a = <<>> THEN <<>> ELSE [i \in 1..n |-> 0] \o a

\* a * b, one limb of b at a time (b the shorter factor).
RECURSIVE BMulFrom(_, _, _, _)
BMulFrom(a, b, j, acc) ==
  IF j > Len(b) \/ Len(acc) < 0 THEN acc
  ELSE BMulFrom(a, b, j + 1, BAdd(acc, BShiftLimbs(BMulSmall(a, b[j]), j - 1)))

BMul(a, b) ==
  IF Len(a) < Len(b) THEN BMulFrom(b, a, 1, <<>>) ELSE BMulFrom(a, b, 1, <<>>)

\* The number of significant bits: 0 for 0, k + 1 for 2^k <= a < 2^(k+1).
BBitLen(a) ==
  IF a = <<>> THEN 0 ELSE LimbBits * (Len(a) - 1) + BitLenSmall(a[Len(a)])

\* a * 2^s
BShl(a, s) == BShiftLimbs(BMulSmall(a, 2 ^ (s % LimbBits)), s \div LimbBits)

\* floor(a / 2^s)
BShr(a, s) ==
  LET drop == s \div LimbBits
      low  == 2 ^ (s % LimbBits)
      high == 2 ^ (LimbBits - (s % LimbBits))
      n    == Len(a) - drop
  IN  IF n <= 0 THEN <<>>
      ELSE BNorm([i \in 1..n |->
                    a[drop + i] \div low + (Limb(a, drop + i + 1) % low) * high])

BPow2(k) == BShl(<<1>>, k)

BIsPow2(a) == a # <<>> /\ a = BPow2(BBitLen(a) - 1)

BIsOdd(a) == a # <<>> /\ a[1] % 2 = 1

\* <<floor(a / d), a mod d>> for 0 < d < Base, from the top limb down.
RECURSIVE BDivModSmallFrom(_, _, _, _, _)
BDivModSmallFrom(a, d, i, r, q) ==
  IF i = 0 \/ r < 0 \/ Len(q) < 0 THEN <<BNorm(q), r>>
  ELSE BDivModSmallFrom(a, d, i - 1, (r * Base + a[i]) % d,
                        <<(r * Base + a[i]) \div d>> \o q)

BDivSmall(a, d) == BDivModSmallFrom(a, d, Len(a), 0, <<>>)[1]
BModSmall(a, d) == BDivModSmallFrom(a, d, Len(a), 0, <<>>)[2]

\* (2^bit * r + the low `bit` bits of limb) mod m, for r < m.
RECURSIVE BModBits(_, _, _, _)
BModBits(r, limb, bit, m) ==
  IF bit = 0 \/ Len(r) > Len(m) THEN r
  ELSE LET r2 == BAdd(BAdd(r, r), BFromInt((limb \div 2 ^ (bit - 1)) % 2))
       IN  BModBits(IF BLeq(m, r2) THEN BSub(r2, m) ELSE r2, limb, bit - 1, m)

RECURSIVE BModFrom(_, _, _, _)
BModFrom(a, i, r, m) ==
  IF i = 0 \/ Len(r) > Len(m) THEN r
  ELSE BModFrom(a, i - 1, BModBits(r, a[i], LimbBits, m), m)

\* a mod m, for m > 0.
BMod(a, m) ==
  IF BLt(a, m) THEN a
  ELSE IF Len(m) = 1 THEN BFromInt(BModSmall(a, m[1]))
  ELSE BModFrom(a, Len(a), <<>>, m)

\* 10^k
\* 5^k * acc, and 10^k = 5^k * 2^k
RECURSIVE BPow5From(_, _)
BPow5From(k, acc) ==
  IF k = 0 \/ Len(acc) < 0 THEN acc
  ELSE IF k >= 6 THEN BPow5From(k - 6, BMulSmall(acc, 15625))
  ELSE BPow5From(k - 1, BMulSmall(acc, 5))

BPow10(k) == BShl(BPow5From(k, <<1>>), k)

(***************************************************************************)
(* JavaScript Number values.  t is "int" (an integer-valued finite number  *)
(* of magnitude mag), "frac" (a finite number that is not an integer, mag  *)
(* its integer part), "inf" or "nan".  Negative zero is kept as zero: no   *)
(* comparison, String() or template literal of the program tells them      *)
(* apart.                                                                  *)
(***************************************************************************)
MantissaBits == 53
ExponentLimit == 1024

NaN == [t |-> "nan", neg |-> FALSE, mag |-> <<>>]
Infinity(neg) == [t |-> "inf", neg |-> neg, mag |-> <<>>]
IntNum(neg, mag) == [t |-> "int", neg |-> (neg /\ mag # <<>>), mag |-> mag]
FracNum(neg, floor) == [t |-> "frac", neg |-> neg, mag |-> floor]
Num(n) == IF n < 0 THEN IntNum(TRUE, BFromInt(-n)) ELSE IntNum(FALSE, BFromInt(n))

\* Whether the quotient q of a division by 2^s, whose remainder compares as
\* c to the half 2^(s-1), is rounded up: ties go to the even quotient, and a
\* sticky remainder (a fraction was dropped before) is no tie.
RoundsUp(c, q, sticky) == c > 0 \/ (c = 0 /\ (sticky \/ BIsOdd(q)))

\* How the low s bits of mag compare to the half 2^(s-1), h being
\* floor(mag / 2^(s-1)): -1, 0 or 1.
HalfCmp(mag, h, s) ==
  IF ~BIsOdd(h) THEN -1 ELSE IF BShl(h, s - 1) = mag THEN 0 ELSE 1

RoundQuotient(mag, q, s, sticky) ==
  BShl(IF RoundsUp(HalfCmp(mag, BShr(mag, s - 1), s), q, sticky)
       THEN BAdd(q, <<1>>) ELSE q, s)

RoundBits(mag, s, sticky) ==
  IF s <= 0 THEN mag ELSE RoundQuotient(mag, BShr(mag, s), s, sticky)

\* The natural number nearest to mag (to mag + a fraction below 1 when sticky)
\* that has at most MantissaBits significant bits; ties go to the even one.
RoundMag(mag, sticky) == RoundBits(mag, BBitLen(mag) - MantissaBits, sticky)

Overflowed(neg, r) ==
  IF BBitLen(r) > ExponentLimit THEN Infinity(neg) ELSE IntNum(neg, r)

\* The Number an exact integer result becomes.
FromExact(neg, mag) == Overflowed(neg, RoundMag(mag, FALSE))

IsNaN(a) == a.t = "nan"
NumberIsFinite(a) == a.t \in {"int", "frac"}
NumberIsInteger(a) == a.t = "int"
IsZero(a) == a.t = "int" /\ a.mag = <<>>

FracRank(a) == IF a.t = "frac" THEN 1 ELSE 0

MagCmp(a, b) ==
  IF a.t = "inf" /\ b.t = "inf" THEN 0
  ELSE IF a.t = "inf" THEN 1
  ELSE IF b.t = "inf" THEN -1
  ELSE IF a.mag # b.mag THEN BCmp(a.mag, b.mag)
  ELSE FracRank(a) - FracRank(b)

\* -1, 0, 1 for two Numbers that are not NaN.
NumCmp(a, b) ==
  IF a.neg /\ ~b.neg THEN -1
  ELSE IF ~a.neg /\ b.neg THEN 1
  ELSE IF a.neg THEN 0 - MagCmp(a, b)
  ELSE MagCmp(a, b)

\* a < b, a <= b, a > b, a >= b: false when an operand is NaN.
NumLt(a, b) == ~IsNaN(a) /\ ~IsNaN(b) /\ NumCmp(a, b) < 0
NumLe(a, b) == ~IsNaN(a) /\ ~IsNaN(b) /\ NumCmp(a, b) <= 0
NumGt(a, b) == NumLt(b, a)
NumGe(a, b) == NumLe(b, a)

\* a * b, for operands that are integers, infinite or NaN.
NumMul(a, b) ==
  CASE IsNaN(a) \/ IsNaN(b) -> NaN
    [] a.t = "inf" \/ b.t = "inf" ->
         IF IsZero(a) \/ IsZero(b) THEN NaN ELSE Infinity(a.neg # b.neg)
    [] a.t = "int" /\ b.t = "int" -> FromExact(a.neg # b.neg, BMul(a.mag, b.mag))

\* The sign and the magnitude of the exact sum of two integers.
SumNeg(a, b) == IF a.neg = b.neg \/ BLeq(b.mag, a.mag) THEN a.neg ELSE b.neg

SumMag(a, b) ==
  IF a.neg = b.neg THEN BAdd(a.mag, b.mag)
  ELSE IF BLeq(b.mag, a.mag) THEN BSub(a.mag, b.mag)
  ELSE BSub(b.mag, a.mag)

\* a + b, for operands that are integers, infinite or NaN.
NumAdd(a, b) ==
  CASE IsNaN(a) \/ IsNaN(b) -> NaN
    [] a.t = "inf" /\ b.t = "inf" -> IF a.neg = b.neg THEN a ELSE NaN
    [] a.t = "inf" -> a
    [] b.t = "inf" -> b
    [] a.t = "int" /\ b.t = "int" -> FromExact(SumNeg(a, b), SumMag(a, b))

\* a % b: the remainder has the sign of the dividend and is exact.
NumMod(a, b) ==
  CASE IsNaN(a) \/ IsNaN(b) -> NaN
    [] a.t = "inf" \/ IsZero(b) -> NaN
    [] b.t = "inf" -> a
    [] a.t = "int" /\ b.t = "int" -> IntNum(a.neg, BMod(a.mag, b.mag))

(***************************************************************************)
(* Number(text): the StringToNumber conversion.  White space is trimmed;   *)
(* the empty text is 0; a decimal literal may have a sign, a fraction and  *)
(* an exponent; 0x, 0o and 0b literals have no sign; anything else is NaN. *)
(* The value is rounded to the nearest binary64 value.                     *)
(***************************************************************************)
DigitOf ==
  [c \in {"0", "1", "2", "3", "4", "5", "6", "7", "8", "9"} |->
     CASE c = "0" -> 0 [] c = "1" -> 1 [] c = "2" -> 2 [] c = "3" -> 3
       [] c = "4" -> 4 [] c = "5" -> 5 [] c = "6" -> 6 [] c = "7" -> 7
       [] c = "8" -> 8 [] c = "9" -> 9]

HexDigitOf ==
  [c \in DOMAIN DigitOf \cup {"a", "b", "c", "d", "e", "f", "A", "B", "C", "D", "E", "F"} |->
     CASE c \in DOMAIN DigitOf -> DigitOf[c]
       [] c \in {"a", "A"} -> 10 [] c \in {"b", "B"} -> 11 [] c \in {"c", "C"} -> 12
       [] c \in {"d", "D"} -> 13 [] c \in {"e", "E"} -> 14 [] c \in {"f", "F"} -> 15]

WhiteSpace == {" ", "\t", "\n", "\r"}

MinOf(S) == CHOOSE x \in S : \A y \in S : x <= y

\* String.prototype.trim
Trim(s) ==
  LET ink == {i \in 1..Len(s) : s[i] \notin WhiteSpace}
  IN  IF ink = {} THEN <<>> ELSE SubSeq(s, MinOf(ink), MaxOf(ink))

\* The last index of the run of decimal digits of s that starts at i
\* (i - 1 when s has no digit at i).
DigitRunEnd(s, i) ==
  LET bad == {j \in i..Len(s) : s[j] \notin DOMAIN DigitOf}
  IN  IF bad = {} THEN Len(s) ELSE MinOf(bad) - 1

\* The number written by the digits ds in the given radix.
RECURSIVE DigitsValueFrom(_, _, _, _)
DigitsValueFrom(ds, radix, i, acc) ==
  IF i > Len(ds) \/ Len(acc) < 0 THEN acc
  ELSE DigitsValueFrom(ds, radix, i + 1,
                       BAdd(BMulSmall(acc, radix), BFromInt(HexDigitOf[ds[i]])))

DigitsValue(ds, radix) == DigitsValueFrom(ds, radix, 1, <<>>)

\* The value of an exponent's digits, held at ExponentCap once it passes it.
ExponentCap == 100000

RECURSIVE SmallValueFrom(_, _, _)
SmallValueFrom(ds, i, acc) ==
  IF i > Len(ds) \/ acc >= ExponentCap THEN acc
  ELSE SmallValueFrom(ds, i + 1, acc * 10 + DigitOf[ds[i]])

SmallValue(ds) == SmallValueFrom(ds, 1, 0)

\* The number of digits of ds from its first non-zero digit on.
SignificantDigits(ds) ==
  Cardinality({i \in 1..Len(ds) : \E j \in 1..i : ds[j] # "0"})

\* The Number nearest to I + R / P, where 0 < R < P = 10^k and I has L bits:
\* a whole number when I fills the significand or the fraction rounds away.
RoundFraction(neg, I, R, P, L, k) ==
  IF L > MantissaBits THEN IntNum(neg, RoundMag(I, TRUE))
  ELSE IF L = MantissaBits THEN
    IntNum(neg, IF RoundsUp(BCmp(BAdd(R, R), P), I, FALSE) THEN BAdd(I, <<1>>) ELSE I)
  ELSE IF L = 0 /\ k >= 320 /\ BLeq(BShl(R, ExponentLimit + MantissaBits - 2), P)
    THEN IntNum(neg, I)
  ELSE IF L > 0 /\ BLeq(BShl(R, MantissaBits - L + 1), P) THEN IntNum(neg, I)
  ELSE IF BLeq(BShl(BSub(P, R), MantissaBits - L + 1), P) THEN IntNum(neg, BAdd(I, <<1>>))
  ELSE FracNum(neg, I)

SplitValue(neg, I, R, k) ==
  IF R = <<>> THEN FromExact(neg, I)
  ELSE RoundFraction(neg, I, R, BPow10(k), BBitLen(I), k)

\* The Number nearest to (the digits ds) * 10^(-k), k > 0.
FractionalDecimal(neg, ds, k) ==
  SplitValue(neg, DigitsValue(SubSeq(ds, 1, Len(ds) - k), 10),
             DigitsValue(IF Len(ds) > k THEN SubSeq(ds, Len(ds) - k + 1, Len(ds)) ELSE ds,
                         10), k)

\* The Number nearest to (the digits ds) * 10^e10.
DecimalValue(neg, ds, e10) ==
  IF SignificantDigits(ds) = 0 THEN IntNum(neg, <<>>)
  ELSE IF e10 >= 0 THEN
    (IF SignificantDigits(ds) + e10 > 310 THEN Infinity(neg)
     ELSE FromExact(neg, BMul(BPow10(e10), DigitsValue(ds, 10))))
  ELSE IF (0 - e10) - SignificantDigits(ds) >= 330 THEN IntNum(neg, <<>>)
  ELSE FractionalDecimal(neg, ds, 0 - e10)

\* The exponent part of s, which starts after index fracEnd: whether it is
\* well formed (it may be absent) and its value.
ExponentDigits(s, from, negative) ==
  [ok    |-> from <= Len(s) /\ DigitRunEnd(s, from) = Len(s),
   value |-> (IF negative THEN -1 ELSE 1) * SmallValue(SubSeq(s, from, Len(s)))]

ExponentPart(s, fracEnd) ==
  IF fracEnd = Len(s) THEN [ok |-> TRUE, value |-> 0]
  ELSE IF s[fracEnd + 1] \notin {"e", "E"} THEN [ok |-> FALSE, value |-> 0]
  ELSE IF fracEnd + 1 < Len(s) /\ s[fracEnd + 2] \in {"+", "-"}
    THEN ExponentDigits(s, fracEnd + 3, s[fracEnd + 2] = "-")
  ELSE ExponentDigits(s, fracEnd + 2, FALSE)

\* The digits ds (of the integer and of the fraction, fracLen of these) with
\* what follows them.
DecimalParts(neg, ds, fracLen, exponent) ==
  IF ds = <<>> \/ ~exponent.ok THEN NaN
  ELSE DecimalValue(neg, ds, exponent.value - fracLen)

DecimalFrom(neg, s, intEnd, fracEnd) ==
  DecimalParts(neg, SubSeq(s, 1, intEnd) \o SubSeq(s, intEnd + 2, fracEnd),
               IF fracEnd > intEnd THEN fracEnd - intEnd - 1 ELSE 0,
               ExponentPart(s, fracEnd))

DecimalAfterInt(neg, s, intEnd) ==
  DecimalFrom(neg, s, intEnd,
              IF intEnd < Len(s) /\ s[intEnd + 1] = "."
              THEN DigitRunEnd(s, intEnd + 2) ELSE intEnd)

\* StrDecimalLiteral, the sign taken off: digits [. digits] [e [sign] digits]
UnsignedDecimal(neg, s) ==
  IF s = <<"I", "n", "f", "i", "n", "i", "t", "y">> THEN Infinity(neg)
  ELSE DecimalAfterInt(neg, s, DigitRunEnd(s, 1))

\* The digits of a 0x, 0o or 0b literal, read in its radix.
RadixDigits(ds, radix) ==
  IF ds # <<>> /\ \A i \in 1..Len(ds) :
                     ds[i] \in DOMAIN HexDigitOf /\ HexDigitOf[ds[i]] < radix
  THEN FromExact(FALSE, DigitsValue(ds, radix))
  ELSE NaN

RadixOf == [c \in {"x", "X", "o", "O", "b", "B"} |->
              IF c \in {"x", "X"} THEN 16 ELSE IF c \in {"o", "O"} THEN 8 ELSE 2]

RadixLiteral(s) == RadixDigits(SubSeq(s, 3, Len(s)), RadixOf[s[2]])

StringNumericLiteral(s) ==
  IF s = <<>> THEN IntNum(FALSE, <<>>)
  ELSE IF Len(s) >= 2 /\ s[1] = "0" /\ s[2] \in DOMAIN RadixOf THEN RadixLiteral(s)
  ELSE UnsignedDecimal(s[1] = "-",
                       IF s[1] \in {"+", "-"} THEN SubSeq(s, 2, Len(s)) ELSE s)

ToNumber(text) == StringNumericLiteral(Trim(text))

(***************************************************************************)
(* String(number) and template-literal formatting.  An integer below 10^21 *)
(* is written in full; a larger one is written in exponent notation, whose *)
(* digits are not worked out here (no count the model enters derives a     *)
(* modulus that large).                                                    *)
(***************************************************************************)
DigitChar == <<"0", "1", "2", "3", "4", "5", "6", "7", "8", "9">>

RECURSIVE DecimalDigits(_, _)
DecimalDigits(mag, acc) ==
  IF mag = <<>> \/ Len(acc) < 0 THEN acc
  ELSE DecimalDigits(BDivSmall(mag, 10), <<DigitChar[BModSmall(mag, 10) + 1]>> \o acc)

NumToString(a) ==
  CASE a.t = "nan" -> <<"N", "a", "N">>
    [] a.t = "inf" -> (IF a.neg THEN <<"-">> ELSE <<>>)
                      \o <<"I", "n", "f", "i", "n", "i", "t", "y">>
    [] a.t = "int" /\ a.mag = <<>> -> <<"0">>
    [] a.t = "int" /\ a.mag # <<>> ->
         (IF a.neg THEN <<"-">> ELSE <<>>)
         \o (IF BLt(a.mag, BPow10(21)) THEN DecimalDigits(a.mag, <<>>)
             ELSE <<"e", "+">>)

(***************************************************************************)
(* nextPow2 (script.js).  Math.log2 returns a binary64 value: for a power  *)
(* of two it is exact, and for n = 2^k + d it rounds to k itself once      *)
(* log2(1 + d / 2^k), about d / (2^k ln 2), is at most half the spacing    *)
(* 2^(floor(log2 k) - 52) of the numbers next to k; ln 2 is taken as       *)
(* 0.6931.  Math.ceil then yields k instead of k + 1.                      *)
(***************************************************************************)
\* Whether log2(2^k + d) rounds to k, s being the exponent of the spacing.
Log2RoundsDown(d, s) ==
  s >= 1 /\ BLeq(BMulSmall(d, 10000), BShl(<<6931>>, s))

\* Math.ceil(Math.log2(n)) for a finite n with 2^k <= n < 2^(k+1).
CeilLog2From(n, k) ==
  IF (n.t = "int" /\ n.mag = BPow2(k))
     \/ Log2RoundsDown(BSub(n.mag, BPow2(k)), k + (BitLenSmall(k) - 1) - MantissaBits)
  THEN k ELSE k + 1

\* Math.ceil(Math.log2(n)) for a finite n >= 1.
CeilLog2(n) == CeilLog2From(n, BBitLen(n.mag) - 1)

\* 2 ** k for a natural number k
Pow2Num(k) == IF k >= ExponentLimit THEN Infinity(FALSE) ELSE IntNum(FALSE, BPow2(k))

\* Math.max(a, b) for Numbers that are not NaN
NumMax(a, b) == IF NumLt(a, b) THEN b ELSE a

nextPow2(n) ==
  IF ~NumberIsFinite(n) \/ NumLt(n, Num(1)) THEN Num(2)
  ELSE NumMax(Num(2), Pow2Num(CeilLog2(n)))

(***************************************************************************)
(* class LCGGenerator                                                      *)
(***************************************************************************)
LCGGenerator(multiplier, increment, modulus, seed) ==
  [multiplier |-> multiplier, increment |-> increment,
   modulus |-> modulus, seed |-> seed]

\* One turn of the loop body of generate: the next value of `current`.
LCGStep(g, current) ==
  NumMod(NumAdd(NumMul(g.multiplier, current), g.increment), g.modulus)

\* The values pushed by `count` turns of the loop that starts from `current`:
\* the first half of the turns, then the rest from where they ended.
RECURSIVE GenerateFrom(_, _, _)
GenerateRest(g, first, count) ==
  IF Len(first) = 0 THEN first
  ELSE first \o GenerateFrom(g, first[Len(first)], count)

GenerateFrom(g, current, count) ==
  IF count <= 0 \/ current.t = "" THEN <<>>
  ELSE IF count = 1 THEN <<LCGStep(g, current)>>
  ELSE GenerateRest(g, GenerateFrom(g, current, count \div 2),
                    count - (count \div 2))

\* generate(count), count a natural number
generate(g, count) == GenerateFrom(g, g.seed, count)

\* value / modulus, kept as its two terms (the quotient before rounding).
NumDiv(a, b) == [num |-> a, den |-> b]

\* The map of generateNormalized over the values generate returned.
Normalize(rawValues, modulus) ==
  [i \in 1..Len(rawValues) |->
     [raw |-> rawValues[i], normalized |-> NumDiv(rawValues[i], modulus)]]

generateNormalized(g, count) == Normalize(generate(g, count), g.modulus)

(***************************************************************************)
(* class ScatterPlot.  A coordinate is a fraction num / den: x of whole    *)
(* numbers, y of Numbers.                                                  *)
(***************************************************************************)
PaddingLeft == 40
PaddingRight == 20
PaddingTop == 20
PaddingBottom == 30

\* The x of a point with the index divided by data.length instead of
\* data.length - 1: the last point falls short of the right margin.
PlotXByLength(canvas, length, index) ==
  [num |-> PaddingLeft * length + index * (canvas.width - PaddingLeft - PaddingRight),
   den |-> length]

\* x = padding.left + (index / Math.max(data.length - 1, 1)) * width
PlotX(canvas, length, index) ==
  LET width == canvas.width - PaddingLeft - PaddingRight
      den   == IF length - 1 > 1 THEN length - 1 ELSE 1
  IN  [num |-> PaddingLeft * den + index * width, den |-> den]

\* y = padding.top + (1 - normalized) * height, kept as its terms
PlotY(canvas, normalized) ==
  [top |-> PaddingTop, normalized |-> normalized,
   height |-> canvas.height - PaddingTop - PaddingBottom]

\* The points plot(data) draws, in drawing order (forEach's index is i - 1).
plot(canvas, data) ==
  IF Len(data) = 0 THEN <<>>
  ELSE [i \in 1..Len(data) |->
          [x |-> PlotX(canvas, Len(data), i - 1),
           y |-> PlotY(canvas, data[i].normalized)]]

(***************************************************************************)
(* class App: the page.  variant tells which of the two scripts runs:      *)
(* "derived" is script.js (the modulus is nextPow2(count), its field is a  *)
(* read-only echo), "fixed" is part_000 (the modulus is read from the      *)
(* form and a count above 100 asks for confirmation).                      *)
(***************************************************************************)
VARIABLES
  variant,           \* which script the page runs
  canvas,            \* this.canvas: [width, height]
  form,              \* this.form: the value of each field, a text
  errorMessage,      \* this.errorMessage.textContent, as a message
  resultsContainer,  \* this.resultsContainer: the items shown
  plotPoints,        \* the points on the canvas (the axes are always drawn)
  generator,         \* the LCGGenerator the last handler built, and its count
  plotData,          \* the argument of the plot call the last handler made
  last,              \* the last handler run: its name, outcome, nextPow2 calls
  edits,             \* how many times a field has been edited
  alive              \* FALSE once the page has run out of memory

vars == <<variant, canvas, form, errorMessage, resultsContainer, plotPoints,
          generator, plotData, last, edits, alive>>

MaxEdits == 2
MaxPlotLen == 3

Variants == {"derived", "fixed"}
\* The canvas element comes from the page's markup: 300 x 150 is the size a
\* canvas has when the markup gives none.  Both are wider than the left and
\* right padding together and taller than the top and bottom padding.
CanvasSizes == {[width |-> 300, height |-> 150], [width |-> 640, height |-> 400]}
PageCanvas == [width |-> 640, height |-> 400]

\* What the user may type into each field.
SeedTexts == {<<"1">>, <<>>, <<"1", "6">>, <<"1", ".", "5">>}
MultiplierTexts == {<<"5">>, <<"-", "5">>, <<"1", "e", "3", "0", "8">>}
IncrementTexts == {<<"3">>, <<"-", "3">>, <<"a", "b", "c">>}
ModulusTexts == {<<"1", "6">>, <<"1">>, <<"0", "x", "1", "0">>}
CountTexts ==
  {<<"1", "0">>, <<"1", "0", "0">>, <<"0">>, <<"1", "5", "0">>,
   <<"4", "5", "0", "3", "5", "9", "9", "6", "2", "7", "3", "7", "0", "4", "9", "7">>}

FieldTexts ==
  [seed |-> SeedTexts, multiplier |-> MultiplierTexts, increment |-> IncrementTexts,
   modulus |-> ModulusTexts, count |-> CountTexts]

\* The fields the user can edit: the derived variant's modulus is read-only.
Editable(v) ==
  IF v = "derived" THEN {"seed", "multiplier", "increment", "count"}
  ELSE {"seed", "multiplier", "increment", "modulus", "count"}

\* Messages: kind, and for the derived variant's seed message the modulus
\* written into it.
\*   parse    'Todos los parametros deben ser enteros (sin decimales).'
\*            / 'Todos los parametros deben ser numeros enteros.'
\*   range    'Valores invalidos: no se permiten negativos y la cantidad debe ser >= 1.'
\*   modulus  'El modulo debe ser un entero mayor que 1.'
\*   seed     'La semilla debe cumplir 0 <= semilla < modulo (m = ...).'
\*   count    'La cantidad de numeros debe ser mayor que 0.'
\*   cancel   'Generacion cancelada por el usuario.'
\*   engine   the message of an exception the engine throws
Message(kind, detail) == [kind |-> kind, detail |-> detail]
NoMessage == Message("none", <<>>)

NoGenerator == [built |-> FALSE, g |-> LCGGenerator(NaN, NaN, NaN, NaN), count |-> NaN]
NoPlot == [called |-> FALSE, data |-> <<>>]

\* The defaults handleReset writes (the derived variant then writes the
\* modulus field).
ResetForm(v) ==
  IF v = "derived"
  THEN [seed |-> <<"1">>, multiplier |-> <<"5">>, increment |-> <<"3">>,
        count |-> <<"1", "0", "0">>, modulus |-> <<>>]
  ELSE [seed |-> <<"1">>, multiplier |-> <<"5">>, increment |-> <<"3">>,
        modulus |-> <<"1", "6">>, count |-> <<"1", "0">>]

\* A call of nextPow2, kept with its result.
NextPow2Call(n) == [n |-> n, result |-> nextPow2(n)]

\* this.form.modulus.value = String(nextPow2(...)), given the calls made.
ShowModulus(f, calls) ==
  IF calls = <<>> THEN f ELSE [f EXCEPT !.modulus = NumToString(calls[1].result)]

\* The script's write of the modulus field from the count field (script.js,
\* constructor and handleReset): the calls of nextPow2 it makes.
ModulusOfCount(f, v) ==
  IF v = "derived" THEN <<NextPow2Call(ToNumber(f.count))>> ELSE <<>>

getInputValues(f, v) ==
  IF v = "derived"
  THEN [seed |-> Trim(f.seed), multiplier |-> Trim(f.multiplier),
        increment |-> Trim(f.increment), count |-> Trim(f.count)]
  ELSE [seed |-> Trim(f.seed), multiplier |-> Trim(f.multiplier),
        increment |-> Trim(f.increment), modulus |-> Trim(f.modulus),
        count |-> Trim(f.count)]

Thrown(kind, detail, parsed) ==
  [ok |-> FALSE, message |-> Message(kind, detail), params |-> parsed, asked |-> FALSE]
Returned(parsed, asked) ==
  [ok |-> TRUE, message |-> NoMessage, params |-> parsed, asked |-> asked]

\* The parse that opens validateInputs: Number(text) of every field read
ParseFields(values) == [f \in DOMAIN values |-> ToNumber(values[f])]

WithModulus(parsed, m) ==
  [f \in DOMAIN parsed \cup {"modulus"} |-> IF f = "modulus" THEN m ELSE parsed[f]]

\* The seed check with its upper bound off by one: seed = modulus passes.
ValidateSeedInclusive(p) ==
  IF NumLt(p.seed, Num(0)) \/ NumGt(p.seed, p.modulus)
  THEN Thrown("seed", NumToString(p.modulus), p)
  ELSE Returned(p, FALSE)

\* validateInputs of script.js from the seed check on: p holds the parsed
\* fields and the derived modulus.
ValidateSeedDerived(p) ==
  IF NumLt(p.seed, Num(0)) \/ NumGe(p.seed, p.modulus)
  THEN Thrown("seed", NumToString(p.modulus), p)
  ELSE Returned(p, FALSE)

\* validateInputs of script.js, from its parse on
validateInputsDerived(parsed) ==
  IF \E f \in DOMAIN parsed :
       ~NumberIsFinite(parsed[f]) \/ ~NumberIsInteger(parsed[f])
  THEN Thrown("parse", <<>>, WithModulus(parsed, NaN))
  ELSE IF NumLt(parsed.seed, Num(0)) \/ NumLt(parsed.multiplier, Num(0))
          \/ NumLt(parsed.increment, Num(0)) \/ NumLt(parsed.count, Num(1))
  THEN Thrown("range", <<>>, WithModulus(parsed, NaN))
  ELSE ValidateSeedDerived(WithModulus(parsed, nextPow2(parsed.count)))

\* validateInputs of part_000, from its parse on
validateInputsFixed(parsed, confirmGeneration) ==
  IF \E f \in DOMAIN parsed : ~NumberIsInteger(parsed[f])
  THEN Thrown("parse", <<>>, parsed)
  ELSE IF NumLe(parsed.modulus, Num(1))
  THEN Thrown("modulus", <<>>, parsed)
  ELSE IF NumLt(parsed.seed, Num(0)) \/ NumGe(parsed.seed, parsed.modulus)
  THEN Thrown("seed", <<>>, parsed)
  ELSE IF NumLe(parsed.count, Num(0))
  THEN Thrown("count", <<>>, parsed)
  ELSE IF ~NumGt(parsed.count, Num(100)) THEN Returned(parsed, FALSE)
  ELSE IF confirmGeneration THEN Returned(parsed, TRUE)
  ELSE [Thrown("cancel", <<>>, parsed) EXCEPT !.asked = TRUE]

\* validateInputs, from its parse on; confirmGeneration is the answer
\* window.confirm returns if it is asked.
validateInputs(parsed, v, confirmGeneration) ==
  IF v = "derived" THEN validateInputsDerived(parsed)
  ELSE validateInputsFixed(parsed, confirmGeneration)

\* displayResults: one item per value, labelled X<i> and u<i>; an item is kept
\* as its index and the two values it writes.
displayResults(data) ==
  [i \in 1..Len(data) |->
     [index |-> i, raw |-> data[i].raw, normalized |-> data[i].normalized]]

\* Whether the loop of generate can push `count` values: the heap gives out
\* (or push throws) long before Base^2 = 2^30 of them.
ArrayCanHold(count) == Len(count.mag) <= 2

\* The page once the constructor has run.  The markup that gives the fields
\* their initial values is not part of the scripts; the fields start with the
\* values handleReset writes, which any page reaches by a reset (the
\* derived variant's constructor writes the modulus of the initial count).
Constructed(v, calls) ==
  /\ variant = v
  /\ canvas = PageCanvas
  /\ form = ShowModulus(ResetForm(v), calls)
  /\ errorMessage = NoMessage
  /\ resultsContainer = <<>>
  /\ plotPoints = <<>>
  /\ generator = NoGenerator
  /\ plotData = NoPlot
  /\ last = [op |-> "construct", outcome |-> "ok", calls |-> calls]
  /\ edits = 0
  /\ alive = TRUE

Init == \E v \in Variants : Constructed(v, ModulusOfCount(ResetForm(v), v))

\* The 'input' listener of the count field (script.js): the modulus field
\* shows nextPow2(count) for an integer count >= 1 and is emptied otherwise.
\* The calls of nextPow2 it makes.
CountListener(countVal) ==
  IF NumberIsInteger(countVal) /\ NumGe(countVal, Num(1))
  THEN <<NextPow2Call(countVal)>> ELSE <<>>

Listened(f, calls) ==
  IF calls = <<>> THEN [f EXCEPT !.modulus = <<>>] ELSE ShowModulus(f, calls)

Typed(field, text, listens, calls) ==
  /\ form' = IF listens THEN Listened([form EXCEPT ![field] = text], calls)
             ELSE [form EXCEPT ![field] = text]
  /\ last' = [op |-> "input", outcome |-> "ok", calls |-> calls]
  /\ edits' = edits + 1
  /\ generator' = NoGenerator
  /\ plotData' = NoPlot
  /\ UNCHANGED <<variant, canvas, errorMessage, resultsContainer, plotPoints, alive>>

\* The user types `text` into `field`.
Input(field, text) ==
  /\ alive
  /\ edits < MaxEdits
  /\ field \in Editable(variant)
  /\ text \in FieldTexts[field]
  /\ text # form[field]
  /\ IF variant = "derived" /\ field = "count"
     THEN Typed(field, text, TRUE, CountListener(ToNumber(text)))
     ELSE Typed(field, text, FALSE, <<>>)

\* The try block of handleSubmit once validateInputs has returned: the
\* generator built from the parameters and the data it produced.
RunGenerator(g, count) ==
  [g |-> g, count |-> count,
   data |-> IF ArrayCanHold(count) THEN generateNormalized(g, BToInt(count.mag))
            ELSE <<>>]

NoRun == [g |-> NoGenerator.g, count |-> NaN, data |-> <<>>]

Submitted(outcome, calls) == [op |-> "submit", outcome |-> outcome, calls |-> calls]

\* What handleSubmit leaves behind, given the outcome v of validateInputs,
\* the run r of the generator when it returned, and the calls of nextPow2.
SubmitOutcome(v, r, calls, fatal) ==
  /\ form' = IF v.ok THEN ShowModulus(form, calls) ELSE form
  /\ UNCHANGED <<variant, canvas, edits>>
  /\ IF v.ok /\ ArrayCanHold(r.count) THEN
       /\ errorMessage' = NoMessage
       /\ resultsContainer' = displayResults(r.data)
       /\ plotPoints' = plot(canvas, r.data)
       /\ generator' = [built |-> TRUE, g |-> r.g, count |-> r.count]
       /\ plotData' = [called |-> TRUE, data |-> r.data]
       /\ last' = Submitted("ok", calls)
       /\ alive' = TRUE
     ELSE IF v.ok /\ fatal THEN
       /\ errorMessage' = NoMessage
       /\ generator' = [built |-> TRUE, g |-> r.g, count |-> r.count]
       /\ last' = Submitted("exhausted", calls)
       /\ alive' = FALSE
       /\ UNCHANGED <<resultsContainer, plotPoints, plotData>>
     ELSE IF v.ok THEN
       /\ errorMessage' = Message("engine", <<>>)
       /\ resultsContainer' = <<>>
       /\ plotPoints' = <<>>
       /\ generator' = [built |-> TRUE, g |-> r.g, count |-> r.count]
       /\ plotData' = NoPlot
       /\ last' = Submitted("engine", calls)
       /\ alive' = TRUE
     ELSE IF v.message.kind = "cancel" THEN
       /\ errorMessage' = NoMessage
       /\ generator' = NoGenerator
       /\ plotData' = NoPlot
       /\ last' = Submitted("cancel", calls)
       /\ UNCHANGED <<resultsContainer, plotPoints, alive>>
     ELSE
       /\ errorMessage' = v.message
       /\ resultsContainer' = <<>>
       /\ plotPoints' = <<>>
       /\ generator' = NoGenerator
       /\ plotData' = NoPlot
       /\ last' = Submitted(v.message.kind, calls)
       /\ alive' = TRUE

\* The ways the engine can fail: it can only on a count no array holds.
EngineFailures(v) ==
  IF v.ok /\ ~ArrayCanHold(v.params.count) THEN BOOLEAN ELSE {FALSE}

\* handleSubmit.  confirmGeneration is the user's answer when window.confirm
\* asks; fatal says how the engine fails on a count no array can hold: the
\* page dies (TRUE) or push throws and the catch block runs (FALSE).
handleSubmit ==
  /\ alive
  /\ \E parsed \in {ParseFields(getInputValues(form, variant))} :
       \E v \in {validateInputs(parsed, variant, confirmGeneration) :
                   confirmGeneration \in BOOLEAN} :
         \E fatal \in EngineFailures(v) :
           \E r \in {IF v.ok
                     THEN RunGenerator(LCGGenerator(v.params.multiplier,
                                                    v.params.increment,
                                                    v.params.modulus, v.params.seed),
                                       v.params.count)
                     ELSE NoRun} :
             SubmitOutcome(v, r,
                           IF variant = "derived" /\ ~IsNaN(v.params.modulus)
                           THEN <<[n |-> v.params.count, result |-> v.params.modulus]>>
                           ELSE <<>>,
                           fatal)

Reset(calls) ==
  /\ alive
  /\ form' = ShowModulus(ResetForm(variant), calls)
  /\ errorMessage' = NoMessage
  /\ resultsContainer' = <<>>
  /\ plotPoints' = <<>>
  /\ generator' = NoGenerator
  /\ plotData' = NoPlot
  /\ last' = [op |-> "reset", outcome |-> "ok", calls |-> calls]
  /\ UNCHANGED <<variant, canvas, edits, alive>>

handleReset == Reset(ModulusOfCount(ResetForm(variant), variant))

Edit == \E field \in DOMAIN FieldTexts : \E text \in FieldTexts[field] : Input(field, text)

Next == Edit \/ handleSubmit \/ handleReset

Spec == Init /\ [][Next]_vars

(***************************************************************************)
(* ScatterPlot.plot on its own: any sequence of up to MaxPlotLen samples   *)
(* is plotted on the canvas of the page as constructed.                    *)
(***************************************************************************)
PlotSamples == {[raw |-> Num(r), normalized |-> NumDiv(Num(r), Num(4))] : r \in 0..3}

PlotInputs ==
  UNION {[1..n -> PlotSamples] : n \in 0..MaxPlotLen}

PlotCall ==
  \E data \in PlotInputs :
    /\ plotPoints' = plot(canvas, data)
    /\ plotData' = [called |-> TRUE, data |-> data]
    /\ last' = [op |-> "plot", outcome |-> "ok", calls |-> <<>>]
    /\ UNCHANGED <<variant, canvas, form, errorMessage, resultsContainer,
                   generator, edits, alive>>

\* The page as constructed, on a canvas of either size.
InitPlot ==
  /\ variant \in Variants
  /\ canvas \in CanvasSizes
  /\ form = ResetForm(variant)
  /\ errorMessage = NoMessage
  /\ resultsContainer = <<>>
  /\ plotPoints = <<>>
  /\ generator = NoGenerator
  /\ plotData = NoPlot
  /\ last = [op |-> "construct", outcome |-> "ok", calls |-> <<>>]
  /\ edits = 0
  /\ alive = TRUE

SpecPlot == InitPlot /\ [][PlotCall]_vars


(***************************************************************************)
(* The parameters a generator holds and the count it was run for, as the   *)
(* data model constrains them.                                             *)
(***************************************************************************)
\* C4: whenever validateInputs returns and the generator is built, its
\* multiplier and increment are integers >= 0, its modulus is an integer
\* > 1, its seed is an integer with 0 <= seed < modulus, and the count is
\* an integer >= 1.
C4_ValidatedParams ==
  generator.built =>
    /\ \A f \in DOMAIN generator.g : NumberIsInteger(generator.g[f])
    /\ NumGe(generator.g.multiplier, Num(0))
    /\ NumGe(generator.g.increment, Num(0))
    /\ NumGt(generator.g.modulus, Num(1))
    /\ NumGe(generator.g.seed, Num(0))
    /\ NumLt(generator.g.seed, generator.g.modulus)
    /\ NumberIsInteger(generator.count)
    /\ NumGe(generator.count, Num(1))

\* C1: a generator with valid parameters that is run for a count n >= 1
\* returns exactly n raw values, each an integer r with 0 <= r < modulus.
C1_GenerateInRange ==
  (last.op = "submit" /\ last.outcome = "ok" /\ C4_ValidatedParams) =>
    /\ Num(Len(resultsContainer)) = generator.count
    /\ \A k \in DOMAIN resultsContainer :
         /\ NumberIsInteger(resultsContainer[k].raw)
         /\ NumGe(resultsContainer[k].raw, Num(0))
         /\ NumLt(resultsContainer[k].raw, generator.g.modulus)

\* C2: the k-th value shown is the recurrence applied, in exact integer
\* arithmetic, to the value before it, the first one to the seed (the seed
\* itself is not shown): x[k] = (multiplier * x[k-1] + increment) mod modulus.
C2_Recurrence ==
  (last.op = "submit" /\ last.outcome = "ok" /\ C4_ValidatedParams) =>
    \A k \in DOMAIN resultsContainer :
      \E prev \in {IF k = 1 THEN generator.g.seed ELSE resultsContainer[k - 1].raw} :
        /\ NumberIsInteger(prev)
        /\ ~prev.neg
        /\ resultsContainer[k].raw =
             IntNum(FALSE, BMod(BAdd(BMul(generator.g.multiplier.mag, prev.mag),
                                     generator.g.increment.mag),
                                generator.g.modulus.mag))

\* C10: for validated parameters the intermediate multiplier * x + increment
\* is at most 2^53 - 1 for every state x < modulus, the largest being
\* x = modulus - 1.
C10_ExactArithmetic ==
  (generator.built /\ C4_ValidatedParams) =>
    BLt(BAdd(BMul(generator.g.multiplier.mag,
                  BSub(generator.g.modulus.mag, <<1>>)),
             generator.g.increment.mag),
        BPow2(MantissaBits))

\* C3: every call nextPow2(n) with an integer n >= 1 returns a power of two
\* p >= 2 with p >= n, and p / 2 < n when n > 2 (p = 2 when n <= 2).
C3_NextPow2Minimal ==
  \A i \in DOMAIN last.calls :
    \A n \in {last.calls[i].n} : \A p \in {last.calls[i].result} :
      (NumberIsInteger(n) /\ NumGe(n, Num(1))) =>
        /\ NumberIsInteger(p)
        /\ BIsPow2(p.mag)
        /\ NumGe(p, Num(2))
        /\ NumGe(p, n)
        /\ NumGt(n, Num(2)) => BLt(BShr(p.mag, 1), n.mag)
        /\ NumLe(n, Num(2)) => p = Num(2)


\* C7: a submission fails with the parse message whenever a field it reads
\* is, once trimmed, not a base-10 integer: empty, non-numeric, with a
\* fraction, or written otherwise than as an optional sign and digits.
C7_RejectsNonIntegerText ==
  last.op = "submit" =>
    \A f \in DOMAIN getInputValues(form, variant) :
      \A text \in {Trim(form[f])} :
        \A digits \in {IF Len(text) > 0 /\ text[1] \in {"+", "-"}
                       THEN Tail(text) ELSE text} :
          (Len(digits) = 0 \/ \E i \in DOMAIN digits : digits[i] \notin DOMAIN DigitOf)
            => last.outcome = "parse"

\* C6: a submission whose count is 0 fails with the range message of the
\* count (script.js: 'range', part_000: 'count'), whatever the other fields
\* hold.
C6_CountZeroIsRangeError ==
  (last.op = "submit" /\ IsZero(ToNumber(Trim(form.count)))) =>
    last.outcome \in {"range", "count"}

\* C8: a submission the user declines at the confirmation gate leaves the
\* error message, the results, the plot and the form as they were before it.
C8_CancelChangesNothing ==
  [][(last'.op = "submit" /\ last'.outcome = "cancel") =>
       /\ errorMessage' = errorMessage
       /\ resultsContainer' = resultsContainer
       /\ plotPoints' = plotPoints
       /\ form' = form]_vars

\* C5: in the derived variant a submission whose fields are all integers,
\* with count >= 1 and seed, multiplier, increment >= 0, shows the seed
\* message exactly when seed >= nextPow2(count), the message names
\* nextPow2(count), and a generator that is built has that modulus.
C5_DerivedModulus ==
  (variant = "derived" /\ last.op = "submit") =>
    \A p \in {ParseFields(getInputValues(form, variant))} :
      ((\A f \in DOMAIN p : NumberIsInteger(p[f]))
       /\ NumGe(p.count, Num(1)) /\ NumGe(p.seed, Num(0))
       /\ NumGe(p.multiplier, Num(0)) /\ NumGe(p.increment, Num(0))) =>
        \A m \in {nextPow2(p.count)} :
          /\ (last.outcome = "seed") <=> NumGe(p.seed, m)
          /\ (errorMessage.kind = "seed") <=> NumGe(p.seed, m)
          /\ errorMessage.kind = "seed" => errorMessage.detail = NumToString(m)
          /\ generator.built => generator.g.modulus = m

\* The derived variant rejects seed 16 for count 10, naming the modulus 16.
C5_Witness ==
  /\ variant = "derived"
  /\ last.op = "submit"
  /\ form.count = <<"1", "0">>
  /\ form.seed = <<"1", "6">>
  /\ errorMessage = Message("seed", <<"1", "6">>)

\* C9: plot draws one point per sample, in index order, at
\* x = left + (i / max(n - 1, 1)) * (width - left - right): left for n = 1;
\* for n > 1 left first, width - right last, strictly increasing in between;
\* no point for no sample.
C9_PlotX ==
  plotData.called =>
    \A n \in {Len(plotData.data)} : \A d \in {IF n - 1 > 1 THEN n - 1 ELSE 1} :
      /\ Len(plotPoints) = n
      /\ \A i \in 1..n :
           /\ plotPoints[i].y.normalized = plotData.data[i].normalized
           /\ plotPoints[i].x.den > 0
           /\ plotPoints[i].x.num * d =
                (PaddingLeft * d + (i - 1) * (canvas.width - PaddingLeft - PaddingRight))
                  * plotPoints[i].x.den
      /\ n >= 1 => plotPoints[1].x.num = PaddingLeft * plotPoints[1].x.den
      /\ n > 1 => plotPoints[n].x.num = (canvas.width - PaddingRight) * plotPoints[n].x.den
      /\ \A i \in 1..(n - 1) :
           plotPoints[i].x.num * plotPoints[i + 1].x.den
             < plotPoints[i + 1].x.num * plotPoints[i].x.den

\* Three samples have been plotted, the middle one halfway between the margins.
C9_Witness ==
  /\ plotData.called
  /\ Len(plotData.data) = 3
  /\ Len(plotPoints) = 3
  /\ 2 * plotPoints[2].x.num = (canvas.width - PaddingRight + PaddingLeft) * plotPoints[2].x.den

=============================================================================
